---------------------------- MODULE Spec2Model ----------------------------
(***************************************************************************)
(* VoiceHire: a mock-interview web application.                            *)
(*                                                                         *)
(* Five state machines are modelled, each with its own specification:      *)
(*                                                                         *)
(*   SpecClient     the browser client (voicehire-frontend/app.js): the    *)
(*                  session screen, the proctoring policy, its timers and  *)
(*                  the asynchronous API calls the client has in flight.   *)
(*   SpecApi        the backend routers (routes/interview.js,              *)
(*                  routes/report.js) behind middleware/auth.js, over the  *)
(*                  SQLite tables of db/database.js.                       *)
(*   SpecQuestions  the local question selector of config/fallback.js.     *)
(*   SpecGemini     callGemini of config/gemini.js: its attempts, its      *)
(*                  waits and the way it ends.                             *)
(*   SpecFunctions  the scoring functions of config/fallback.js and the    *)
(*                  score-to-grade conversions, called on their own.       *)
(*                                                                         *)
(* The variables of the machines a specification does not run stay at      *)
(* their initial values.                                                   *)
(***************************************************************************)
EXTENDS Integers, Sequences, FiniteSets, TLC

VARIABLES
    (* ---- client (app.js) ---- *)
    screen,                 \* the .screen element that is active
    currentInterview,       \* [id, total]; id "none" stands for null, see Tracked
    currentQIndex,
    feedbackReceived,
    cameraEnabled,
    cameraStream,           \* TRUE: a live MediaStream is held
    proctorWarnings,
    proctorActive,
    faceDetectionInterval,  \* TRUE: the 2 s interval is set
    previousFrameData,      \* TRUE: a previous frame is held
    proctorCooldown,
    warningModal,           \* TRUE: #proctor-warning-modal is shown
    terminatedModal,        \* TRUE: #proctor-terminated-modal is shown
    cooldownTimers,         \* pending setTimeout(..., 8000) of handleProctorViolation
    dismissTimers,          \* pending setTimeout(..., 8000) of showProctorWarning
    blurTimers,             \* pending setTimeout(..., 300) of handleWindowBlur
    camPending,             \* getUserMedia promises not yet settled
    flow,                   \* the async handler that holds the loading overlay, and its await
    dismissPc,              \* dismissTerminatedModal: "none", or the interview its PATCH is for
    srv,                    \* the server's status of the tracked interview
    emitted,                \* the proctoring events the last handler emitted
    sessionTerminated,      \* history: the session on screen was terminated by proctoring
    staleCooldown,          \* history: pending cooldown timers scheduled before the last deactivation
    staleDismiss,           \* history: pending auto-dismiss timers scheduled before the last deactivation
    (* ---- backend (routes, middleware, db) ---- *)
    db,                     \* the tables interviews, questions, answers, reports
    nextId,                 \* AUTOINCREMENT counters of the tables
    inflight,               \* the requests suspended on their await of callGemini, a sequence
    lastReq,                \* the request the last step served (or resumed)
    lastRes,                \* the response the last step sent
    work,                   \* history: what the last step did besides answering
    genResponse,            \* history: the interview and the report of the last generate response
    (* ---- question selector (fallback.js) ---- *)
    request,                \* the SelectionRequest
    selection,              \* the result of generateLocalQuestions, <<>> before the call
    thrown,                 \* the call of generateLocalQuestions ended in an exception
    (* ---- calls of the scoring functions (fallback.js, routes) ---- *)
    call,                   \* the function called and its arguments
    result,                 \* what the call returned
    (* ---- callGemini (config/gemini.js) ---- *)
    gemini                  \* the call of callGemini: its position, locals and outcome

clientVars == <<screen, currentInterview, currentQIndex, feedbackReceived,
                cameraEnabled, cameraStream, proctorWarnings, proctorActive,
                faceDetectionInterval, previousFrameData, proctorCooldown,
                warningModal, terminatedModal, cooldownTimers,
                dismissTimers, blurTimers, camPending, flow, dismissPc, srv,
                emitted, sessionTerminated, staleCooldown, staleDismiss>>

apiVars == <<db, nextId, inflight, lastReq, lastRes, work, genResponse>>

fnVars == <<request, selection, thrown, call, result, gemini>>

vars == <<clientVars, apiVars, fnVars>>

(***************************************************************************)
(* Bounds of the model.                                                    *)
(***************************************************************************)
MaxClientQuestions == 2    \* questions of a client interview
MaxTimers == 2             \* pending 8 s timers of one kind
MaxBlurTimers == 1         \* pending 300 ms timers of handleWindowBlur
MaxCamPending == 1         \* unsettled getUserMedia calls
PoolSize == 4              \* questions of a pool of the selector
MaxInterviews == 1         \* interview rows ever inserted
MaxQuestions == 1          \* numQuestions of a start request
MaxAnswers == 2            \* answer rows ever inserted
MaxReports == 2            \* report rows ever inserted
MaxInflight == 2           \* requests suspended on callGemini at a time
RandomSteps == 24          \* numbers Math.random() takes in the model

(***************************************************************************)
(* Program constants.                                                      *)
(***************************************************************************)
MAX_PROCTOR_WARNINGS == 3

Min(a, b) == IF a < b THEN a ELSE b

(***************************************************************************)
(*                              THE CLIENT                                 *)
(*                                                                         *)
(* Every function of app.js that changes state is an operator from the     *)
(* client state (a record c of the client variables) to the client state;  *)
(* an action applies the handler it models to the current state.  The      *)
(* markup (index.html) is not part of the sources: the model takes a       *)
(* control to be clickable only while no overlay (#loading, a proctoring   *)
(* modal) is shown, and each button to call the handler named after it.    *)
(***************************************************************************)
Client ==
    [screen |-> screen, currentInterview |-> currentInterview,
     currentQIndex |-> currentQIndex, feedbackReceived |-> feedbackReceived,
     cameraEnabled |-> cameraEnabled, cameraStream |-> cameraStream,
     proctorWarnings |-> proctorWarnings, proctorActive |-> proctorActive,
     faceDetectionInterval |-> faceDetectionInterval,
     previousFrameData |-> previousFrameData, proctorCooldown |-> proctorCooldown,
     warningModal |-> warningModal,
     terminatedModal |-> terminatedModal, cooldownTimers |-> cooldownTimers,
     dismissTimers |-> dismissTimers, blurTimers |-> blurTimers,
     camPending |-> camPending,
     flow |-> flow, dismissPc |-> dismissPc,
     srv |-> srv, emitted |-> <<>>, sessionTerminated |-> sessionTerminated]

\* The pending timers and promises stay within the bounds of the model.
WithinBounds(c) ==
    /\ c.cooldownTimers <= MaxTimers
    /\ c.dismissTimers <= MaxTimers
    /\ c.blurTimers <= MaxBlurTimers
    /\ c.camPending <= MaxCamPending

\* The timers of one kind have the same delay and fire in the order they
\* were scheduled in.  Of the pending ones, those scheduled before the last
\* deactivation of proctoring are counted apart: all of them when the step
\* deactivates, one less when the step fires a timer and there was one.
StaleAfter(stale, before, after, deactivated) ==
    IF deactivated THEN after
    ELSE IF after < before /\ stale > 0 THEN stale - 1
    ELSE stale

SetClient(c) ==
    /\ WithinBounds(c)
    /\ screen' = c.screen
    /\ currentInterview' = c.currentInterview
    /\ currentQIndex' = c.currentQIndex
    /\ feedbackReceived' = c.feedbackReceived
    /\ cameraEnabled' = c.cameraEnabled
    /\ cameraStream' = c.cameraStream
    /\ proctorWarnings' = c.proctorWarnings
    /\ proctorActive' = c.proctorActive
    /\ faceDetectionInterval' = c.faceDetectionInterval
    /\ previousFrameData' = c.previousFrameData
    /\ proctorCooldown' = c.proctorCooldown
    /\ warningModal' = c.warningModal
    /\ terminatedModal' = c.terminatedModal
    /\ cooldownTimers' = c.cooldownTimers
    /\ dismissTimers' = c.dismissTimers
    /\ blurTimers' = c.blurTimers
    /\ camPending' = c.camPending
    /\ flow' = c.flow
    /\ dismissPc' = c.dismissPc
    /\ srv' = c.srv
    /\ emitted' = c.emitted
    /\ sessionTerminated' = c.sessionTerminated
    /\ staleCooldown' = StaleAfter(staleCooldown, cooldownTimers, c.cooldownTimers,
                                   proctorActive /\ ~c.proctorActive)
    /\ staleDismiss' = StaleAfter(staleDismiss, dismissTimers, c.dismissTimers,
                                  proctorActive /\ ~c.proctorActive)
    /\ UNCHANGED <<apiVars, fnVars>>

Reasons == {"tab", "blur", "motion"}

Idle == [pc |-> "idle", id |-> "none", q |-> 0]

\* How a call of api() ends: a 2xx response, a 401 (api() then calls logout()
\* and throws), or any other failure (network error, another status).
Outcomes == {"ok", "unauthorized", "failed"}

-----------------------------------------------------------------------------
\* app.js: stopCamera
stopCamera(c) == [c EXCEPT !.cameraStream = FALSE]

\* app.js: startCamera, up to its await of getUserMedia
startCamera(c) == [c EXCEPT !.camPending = @ + 1]

\* app.js: startFaceDetection
startFaceDetection(c) == [c EXCEPT !.faceDetectionInterval = TRUE]

\* startProctoring without the reset of the cooldown
startProctoring_keepsCooldown(c) ==
    IF c.proctorActive THEN c
    ELSE startFaceDetection(
           [c EXCEPT !.proctorActive = TRUE,
                     !.proctorWarnings = 0,
                     !.previousFrameData = FALSE])

\* app.js: startProctoring
startProctoring(c) ==
    IF c.proctorActive THEN c
    ELSE startFaceDetection(
           [c EXCEPT !.proctorActive = TRUE,
                     !.proctorWarnings = 0,
                     !.previousFrameData = FALSE,
                     !.proctorCooldown = FALSE])

\* stopProctoring leaving the interval of the face detection running
stopProctoring_keepsInterval(c) ==
    IF ~c.proctorActive THEN c
    ELSE [c EXCEPT !.proctorActive = FALSE,
                   !.previousFrameData = FALSE]

\* app.js: stopProctoring
stopProctoring(c) ==
    IF ~c.proctorActive THEN c
    ELSE [c EXCEPT !.proctorActive = FALSE,
                   !.faceDetectionInterval = FALSE,
                   !.previousFrameData = FALSE]

\* navigate leaving proctoring running when the session screen is left
navigate_keepsProctoring(c, s) ==
    LET c1 == [c EXCEPT !.screen = s]
    IN  IF s # "session" THEN stopCamera(c1) ELSE c1

\* app.js: navigate.  loadDashboard, which navigate('dashboard') starts, changes
\* state only when its call ends in a 401: see HistoryUnauthorized.
navigate(c, s) ==
    LET c1 == [c EXCEPT !.screen = s]
    IN  IF s # "session" THEN stopProctoring(stopCamera(c1)) ELSE c1

\* app.js: logout
logout(c) == navigate(c, "auth")

\* app.js: api, when the call has ended with outcome o: a 401 logs out first
apiEnded(c, o) == IF o = "unauthorized" THEN logout(c) ELSE c

\* app.js: showProctorWarning
showProctorWarning(c, reason, count) ==
    [c EXCEPT !.warningModal = TRUE,
              !.dismissTimers = @ + 1,
              !.emitted = Append(@, [type |-> "warning", reason |-> reason,
                                     count |-> count])]

\* app.js: dismissProctorWarning
dismissProctorWarning(c) == [c EXCEPT !.warningModal = FALSE]

\* app.js: showInterviewTerminated
showInterviewTerminated(c, lastReason) ==
    LET c1 == stopProctoring(c)
    IN  [c1 EXCEPT !.terminatedModal = TRUE,
                   !.sessionTerminated = TRUE,
                   !.emitted = Append(@, [type |-> "terminated",
                                          reason |-> lastReason,
                                          count |-> c.proctorWarnings])]

\* handleProctorViolation without the test of the cooldown
handleProctorViolation_noCooldown(c, reason) ==
    IF ~c.proctorActive THEN c
    ELSE LET c1 == [c EXCEPT !.proctorWarnings = @ + 1,
                             !.proctorCooldown = TRUE,
                             !.cooldownTimers = @ + 1]
         IN  IF c1.proctorWarnings >= MAX_PROCTOR_WARNINGS
             THEN showInterviewTerminated(c1, reason)
             ELSE showProctorWarning(c1, reason, c1.proctorWarnings)

\* handleProctorViolation comparing with > instead of >=
handleProctorViolation_late(c, reason) ==
    IF ~c.proctorActive \/ c.proctorCooldown THEN c
    ELSE LET c1 == [c EXCEPT !.proctorWarnings = @ + 1,
                             !.proctorCooldown = TRUE,
                             !.cooldownTimers = @ + 1]
         IN  IF c1.proctorWarnings > MAX_PROCTOR_WARNINGS
             THEN showInterviewTerminated(c1, reason)
             ELSE showProctorWarning(c1, reason, c1.proctorWarnings)

\* app.js: handleProctorViolation
handleProctorViolation(c, reason) ==
    IF ~c.proctorActive \/ c.proctorCooldown THEN c
    ELSE LET c1 == [c EXCEPT !.proctorWarnings = @ + 1,
                             !.proctorCooldown = TRUE,
                             !.cooldownTimers = @ + 1]
         IN  IF c1.proctorWarnings >= MAX_PROCTOR_WARNINGS
             THEN showInterviewTerminated(c1, reason)
             ELSE showProctorWarning(c1, reason, c1.proctorWarnings)

\* app.js: renderCurrentQuestion
renderCurrentQuestion(c) ==
    LET c1 == [c EXCEPT !.feedbackReceived = FALSE]
        c2 == IF c1.cameraEnabled /\ ~c1.cameraStream THEN startCamera(c1) ELSE c1
    IN  IF ~c2.proctorActive THEN startProctoring(c2) ELSE c2

-----------------------------------------------------------------------------
(***************************************************************************)
(* A user has any number of interviews, created by this client or by       *)
(* another tab.  The model tracks the server's status (interviews.status)  *)
(* of one of them: the interview of the session opened last, called        *)
(* Tracked.  Other stands for any other interview of the user.  Questions, *)
(* answers and reports are not tracked: what a call returns about them     *)
(* (the number of questions, the first unanswered one, a report found or   *)
(* not) is an input of the action that ends the call.                      *)
(***************************************************************************)
Tracked == "tracked"

Other == "other"

NoInterview == [id |-> "none", total |-> 0]

\* interview.js: PATCH /:id/complete, as far as the tracked status goes
srvComplete(s, id) == IF id = Tracked THEN "completed" ELSE s

\* report.js: POST /generate/:interviewId completes the interview
srvGenerate(s, id) == IF id = Tracked THEN "completed" ELSE s

\* The session of another interview opens: that interview is the tracked one
\* from now on, and a pending call for the one tracked so far is for Other.
track(c, id, status) ==
    IF id = Tracked THEN c
    ELSE [c EXCEPT !.srv = status,
                   !.dismissPc = IF @ = "none" THEN "none" ELSE Other]

\* app.js: handleStartInterview after its await, and resumeInterview: a session opens
openSession(c, total, index) ==
    LET c1 == [c EXCEPT !.currentInterview = [id |-> Tracked, total |-> total],
                        !.currentQIndex = index,
                        !.feedbackReceived = FALSE,
                        !.sessionTerminated = FALSE]
    IN  renderCurrentQuestion(navigate(c1, "session"))

\* app.js: finishInterview, up to its first await
finishInterview(c) ==
    [c EXCEPT !.flow = [pc |-> "finishComplete", id |-> c.currentInterview.id, q |-> 0]]

\* app.js: skipQuestion
skipQuestion(c) ==
    IF c.currentQIndex < c.currentInterview.total - 1
    THEN renderCurrentQuestion([c EXCEPT !.currentQIndex = @ + 1])
    ELSE finishInterview(c)

\* app.js: nextQuestion
nextQuestion(c) == renderCurrentQuestion([c EXCEPT !.currentQIndex = @ + 1])

\* app.js: toggleCamera
toggleCamera(c) ==
    IF c.cameraStream
    THEN [stopCamera(c) EXCEPT !.cameraEnabled = FALSE]
    ELSE [startCamera(c) EXCEPT !.cameraEnabled = TRUE]

\* app.js: dismissTerminatedModal, up to its await
dismissTerminatedModal(c) ==
    LET c1 == [c EXCEPT !.terminatedModal = FALSE]
    IN  IF c1.currentInterview.id # "none"
        THEN [c1 EXCEPT !.dismissPc = c1.currentInterview.id]
        ELSE navigate(stopCamera(c1), "dashboard")

\* app.js: dismissTerminatedModal after its await: the PATCH ended with outcome o
dismissTerminatedEnded(c, o) ==
    LET c1 == apiEnded(c, o)
        c2 == IF o = "ok" THEN [c1 EXCEPT !.srv = srvComplete(@, c.dismissPc)] ELSE c1
        c3 == navigate(stopCamera(c2), "dashboard")
    IN  [c3 EXCEPT !.dismissPc = "none"]

\* No overlay covers the page: neither #loading nor a proctoring modal.
Clickable == flow.pc = "idle" /\ ~warningModal /\ ~terminatedModal

-----------------------------------------------------------------------------
(***************************************************************************)
(* Client actions: user input.                                             *)
(***************************************************************************)
\* handleLogin / handleRegister when the call succeeded (a failed one changes
\* nothing)
Login ==
    /\ screen = "auth" /\ Clickable
    /\ SetClient(navigate(Client, "dashboard"))

\* the navbar and report buttons: navigate('dashboard'), navigate('setup')
ClickNavigate ==
    /\ screen # "auth" /\ Clickable
    /\ \E s \in {"dashboard", "setup"} : SetClient(navigate(Client, s))

ClickLogout ==
    /\ screen # "auth" /\ Clickable
    /\ SetClient(logout(Client))

\* loadDashboard after its await, when api('/interview/history') ended in a 401.
\* Every login ends in navigate('dashboard'), which starts such a call, and the
\* call may end at any later time: one may be pending whenever a user is in.
HistoryUnauthorized ==
    /\ screen # "auth"
    /\ SetClient(apiEnded(Client, "unauthorized"))

\* handleStartInterview, up to the await
ClickStartInterview ==
    /\ screen = "setup" /\ Clickable
    /\ SetClient([Client EXCEPT !.flow = [pc |-> "start", id |-> "none", q |-> 0]])

\* handleStartInterview after the await; when the call succeeded the server has
\* created an interview with n questions
StartDone ==
    /\ flow.pc = "start"
    /\ \/ \E n \in 1..MaxClientQuestions :
            SetClient(openSession(track([Client EXCEPT !.flow = Idle], Other,
                                        "in_progress"), n, 0))
       \/ \E o \in {"unauthorized", "failed"} :
            SetClient([apiEnded(Client, o) EXCEPT !.flow = Idle])

\* viewInterview(id, status), up to its first await; status is the one of the
\* dashboard's list
ClickViewInterview ==
    /\ screen = "dashboard" /\ Clickable
    /\ \E id \in {Tracked, Other}, status \in {"in_progress", "completed"} :
         /\ id = Tracked => srv = status
         /\ SetClient([Client EXCEPT !.flow =
               [pc |-> IF status = "completed" THEN "viewReport" ELSE "viewResume",
                id |-> id, q |-> 0]])

\* viewInterview: GET /report/:id ended
ViewReportDone ==
    /\ flow.pc = "viewReport"
    /\ \E o \in Outcomes :
         SetClient(IF o = "ok"
                      THEN [navigate(Client, "report") EXCEPT !.flow = Idle]
                      ELSE [apiEnded(Client, o) EXCEPT !.flow.pc = "viewGenerate"])

\* viewInterview: POST /report/generate/:id ended
ViewGenerateDone ==
    /\ flow.pc = "viewGenerate"
    /\ \E o \in Outcomes :
         SetClient(IF o = "ok"
                      THEN [navigate([Client EXCEPT !.srv = srvGenerate(@, flow.id)],
                                     "report") EXCEPT !.flow = Idle]
                      ELSE [apiEnded(Client, o) EXCEPT !.flow = Idle])

\* viewInterview: GET /interview/:id ended; resumeInterview opens the session at
\* index first: the first unanswered question, or the last one
ViewResumeDone ==
    /\ flow.pc = "viewResume"
    /\ \/ \E n \in 1..MaxClientQuestions : \E first \in 0..(n - 1) :
            SetClient(openSession(track([Client EXCEPT !.flow = Idle], flow.id,
                                        "in_progress"), n, first))
       \/ \E o \in {"unauthorized", "failed"} :
            SetClient([apiEnded(Client, o) EXCEPT !.flow = Idle])

\* submitAnswer, up to the await (an answer of at least 5 characters)
ClickSubmitAnswer ==
    /\ screen = "session" /\ Clickable /\ ~feedbackReceived
    /\ SetClient([Client EXCEPT !.flow = [pc |-> "submit",
                                          id |-> currentInterview.id,
                                          q |-> currentQIndex]])

\* submitAnswer after the await
SubmitDone ==
    /\ flow.pc = "submit"
    /\ \E o \in Outcomes :
         SetClient(IF o = "ok"
                   THEN [Client EXCEPT !.feedbackReceived = TRUE,
                                       !.flow = Idle]
                   ELSE [apiEnded(Client, o) EXCEPT !.flow = Idle])

\* #btn-skip, shown until feedback is received
ClickSkip ==
    /\ screen = "session" /\ Clickable /\ ~feedbackReceived
    /\ SetClient(skipQuestion(Client))

\* #btn-next, shown after the feedback of a question that is not the last
ClickNext ==
    /\ screen = "session" /\ Clickable /\ feedbackReceived
    /\ currentQIndex < currentInterview.total - 1
    /\ SetClient(nextQuestion(Client))

\* #btn-finish, shown after the feedback of the last question
ClickFinish ==
    /\ screen = "session" /\ Clickable /\ feedbackReceived
    /\ currentQIndex >= currentInterview.total - 1
    /\ SetClient(finishInterview(Client))

\* finishInterview: PATCH /interview/:id/complete ended
FinishCompleteDone ==
    /\ flow.pc = "finishComplete"
    /\ \E o \in Outcomes :
         SetClient(IF o = "ok"
                   THEN [Client EXCEPT !.srv = srvComplete(@, flow.id),
                                       !.flow.pc = "finishReport"]
                   ELSE [navigate(apiEnded(Client, o), "dashboard")
                           EXCEPT !.flow = Idle])

\* finishInterview: POST /report/generate/:id ended
FinishReportDone ==
    /\ flow.pc = "finishReport"
    /\ \E o \in Outcomes :
         SetClient(IF o = "ok"
                      THEN [navigate([Client EXCEPT !.srv = srvGenerate(@, flow.id)],
                                     "report") EXCEPT !.flow = Idle]
                      ELSE [navigate(apiEnded(Client, o), "dashboard")
                              EXCEPT !.flow = Idle])

ClickToggleCamera ==
    /\ screen = "session" /\ Clickable
    /\ SetClient(toggleCamera(Client))

\* startCamera after its await: getUserMedia resolved
CameraGranted ==
    /\ camPending > 0
    /\ SetClient([Client EXCEPT !.camPending = @ - 1, !.cameraStream = TRUE])

\* startCamera after its await: getUserMedia rejected
CameraDenied ==
    /\ camPending > 0
    /\ SetClient([Client EXCEPT !.camPending = @ - 1, !.cameraEnabled = FALSE])

\* the button of the warning modal
ClickDismissWarning ==
    /\ warningModal /\ ~terminatedModal /\ flow.pc = "idle"
    /\ SetClient(dismissProctorWarning(Client))

\* the button of the terminated modal
ClickDismissTerminated ==
    /\ terminatedModal /\ flow.pc = "idle" /\ dismissPc = "none"
    /\ SetClient(dismissTerminatedModal(Client))

\* dismissTerminatedModal: PATCH /interview/:id/complete ended
DismissTerminatedDone ==
    /\ dismissPc # "none"
    /\ \E o \in Outcomes : SetClient(dismissTerminatedEnded(Client, o))

-----------------------------------------------------------------------------
(***************************************************************************)
(* Client actions: browser events and timers.                              *)
(***************************************************************************)
\* app.js: handleVisibilityChange; hidden: document.hidden
handleVisibilityChange(c, hidden) ==
    IF ~c.proctorActive THEN c
    ELSE IF hidden THEN handleProctorViolation(c, "tab") ELSE c

\* app.js: handleWindowBlur
handleWindowBlur(c) ==
    IF ~c.proctorActive THEN c ELSE [c EXCEPT !.blurTimers = @ + 1]

\* app.js: the timeout callback of handleWindowBlur; hidden: document.hidden
blurTimeout(c, hidden) ==
    IF ~c.proctorActive THEN c
    ELSE IF hidden THEN c
    ELSE handleProctorViolation(c, "blur")

\* app.js: detectFaceMovement; moved: more than 40% of the pixels changed
detectFaceMovement(c, moved) ==
    IF ~c.previousFrameData THEN [c EXCEPT !.previousFrameData = TRUE]
    ELSE IF moved THEN handleProctorViolation(c, "motion") ELSE c

\* app.js: the interval callback of startFaceDetection
faceDetectionTick(c, moved) ==
    IF ~c.proctorActive \/ ~c.cameraStream THEN c ELSE detectFaceMovement(c, moved)

\* The document becomes hidden or visible.  document.hidden is the browser's
\* state, an input of the handlers that read it.  The listener is registered
\* while proctoring is active (startProctoring adds it, stopProctoring removes it).
VisibilityChange ==
    /\ proctorActive
    /\ \E hidden \in BOOLEAN : SetClient(handleVisibilityChange(Client, hidden))

\* the window loses focus
WindowBlur ==
    /\ proctorActive
    /\ SetClient(handleWindowBlur(Client))

BlurTimerFires ==
    /\ blurTimers > 0
    /\ \E hidden \in BOOLEAN :
         SetClient(blurTimeout([Client EXCEPT !.blurTimers = @ - 1], hidden))

FaceDetectionTick ==
    /\ faceDetectionInterval
    /\ \E moved \in BOOLEAN : SetClient(faceDetectionTick(Client, moved))

\* the timeout callback of handleProctorViolation
CooldownTimerFires ==
    /\ cooldownTimers > 0
    /\ SetClient([Client EXCEPT !.cooldownTimers = @ - 1, !.proctorCooldown = FALSE])

\* the timeout callback of showProctorWarning
DismissTimerFires ==
    /\ dismissTimers > 0
    /\ LET c1 == [Client EXCEPT !.dismissTimers = @ - 1]
       IN  SetClient(IF c1.warningModal THEN dismissProctorWarning(c1) ELSE c1)

-----------------------------------------------------------------------------
(***************************************************************************)
(*                     THE LOCAL QUESTION SELECTOR                         *)
(*                                                                         *)
(* config/fallback.js.  A question text is a record: the pool it is from,  *)
(* its place in that pool, whether it holds one of the phrases the         *)
(* personalisation replaces, and the job role written into it ("" when     *)
(* none was).  Two texts are the same string exactly when their records    *)
(* are equal: the 60 pool strings differ pairwise, and a personalised      *)
(* text differs from every pool string.                                    *)
(***************************************************************************)
InterviewTypes == {"behavioral", "technical", "situational", "mixed"}

JobRoles == {"developer"}

\* fallback.js: QUESTIONS.  Only the first question of the behavioral pool
\* ("... this role.") and of the mixed pool ("... your experience in this
\* field.") hold a phrase of the personalisation.
QUESTIONS(t) ==
    [i \in 1..PoolSize |->
        [type |-> t, idx |-> i, role |-> "",
         marker |-> (i = 1 /\ t \in {"behavioral", "mixed"})]]

\* String.prototype.replace(/this role|this field|your experience/gi, `the ${jobRole} role`)
personalise(q, jobRole) ==
    IF q.marker THEN [q EXCEPT !.role = jobRole, !.marker = FALSE] ELSE q

Range(f) == {f[i] : i \in DOMAIN f}

\* [...pool].sort(() => Math.random() - 0.5): the comparator is random, the
\* result is some permutation of the pool
Shuffles(pool) ==
    {s \in [DOMAIN pool -> Range(pool)] : Range(s) = Range(pool)}

\* Array.prototype.slice(0, n), n >= 0
slice(s, n) == SubSeq(s, 1, Min(n, Len(s)))

\* generateLocalQuestions with one question more than asked for
generateLocalQuestions_more(req, shuffled) ==
    LET selected == slice(shuffled, req.numQuestions + 1)
    IN  IF Len(selected) > 0
        THEN [selected EXCEPT ![1] = personalise(@, req.jobRole)]
        ELSE selected

\* fallback.js: generateLocalQuestions; shuffled is the outcome of the sort
generateLocalQuestions(req, shuffled) ==
    LET selected == slice(shuffled, req.numQuestions)
    IN  IF Len(selected) > 0
        THEN [selected EXCEPT ![1] = personalise(@, req.jobRole)]
        ELSE selected

\* QUESTIONS is an object literal: besides its four own keys, a lookup
\* finds the members it inherits from Object.prototype, which are functions
ObjectPrototypeNames == {"constructor", "toString"}

\* fallback.js: const pool = QUESTIONS[interviewType] || QUESTIONS.mixed;
\* an inherited member is truthy and holds no questions
poolOf(interviewType) ==
    IF interviewType \in InterviewTypes THEN QUESTIONS(interviewType)
    ELSE IF interviewType \in ObjectPrototypeNames THEN <<>>
    ELSE QUESTIONS("mixed")

\* fallback.js: [...pool] of a value that is not iterable throws a TypeError
spreadThrows(interviewType) == interviewType \in ObjectPrototypeNames

SelectionRequests ==
    [jobRole : JobRoles,
     interviewType : InterviewTypes \cup {"panel"} \cup ObjectPrototypeNames,
     numQuestions : 1..(PoolSize + 1)]

NoRequest == [jobRole |-> "", interviewType |-> "", numQuestions |-> 0]

\* a call of generateLocalQuestions
Select ==
    /\ selection = <<>> /\ ~thrown
    /\ IF spreadThrows(request.interviewType)
       THEN thrown' = TRUE /\ selection' = <<>>
       ELSE /\ thrown' = FALSE
            /\ \E shuffled \in Shuffles(poolOf(request.interviewType)) :
                 selection' = generateLocalQuestions(request, shuffled)
    /\ UNCHANGED <<request, call, result, gemini, clientVars, apiVars>>

\* the next call
NextRequest ==
    /\ selection # <<>> \/ thrown
    /\ request' \in SelectionRequests
    /\ selection' = <<>>
    /\ thrown' = FALSE
    /\ UNCHANGED <<call, result, gemini, clientVars, apiVars>>

-----------------------------------------------------------------------------
(***************************************************************************)
(*                             THE BACKEND                                 *)
(*                                                                         *)
(* routes/interview.js and routes/report.js behind middleware/auth.js,     *)
(* over the tables of db/database.js (better-sqlite3: every statement is   *)
(* synchronous, so a handler runs without interruption except at its       *)
(* await of callGemini).  A step of the machine is one request served up   *)
(* to its response or up to that await, or a suspended request resumed     *)
(* with the outcome of callGemini and served to its response.  The model   *)
(* starts where a request reaches a router: the layers server.js puts in   *)
(* front (CORS, body parsers, express-rate-limit) are not modelled.        *)
(*                                                                         *)
(* A row holds the columns the handlers read or write after the insert;    *)
(* NULL is the empty sequence, a value v is <<v>> where a column can be    *)
(* NULL.  Times (started_at, generated_at) are the constant "t".           *)
(***************************************************************************)
Users == {"u1", "u2"}

NULL == <<>>

EmptyDb == [interviews |-> {}, questions |-> {}, answers |-> {}, reports |-> {}]

\* AUTOINCREMENT: the next rowid of each table
FirstIds == [interviews |-> 1, questions |-> 1, answers |-> 1, reports |-> 1]

\* Authorization headers: none, another scheme, and Bearer tokens that
\* jwt.verify accepts, finds expired or finds invalid
AuthHeaders ==
    {[scheme |-> "none", token |-> "none", user |-> "nobody"],
     [scheme |-> "Basic", token |-> "none", user |-> "nobody"],
     [scheme |-> "Bearer", token |-> "invalid", user |-> "nobody"]}
    \cup [scheme : {"Bearer"}, token : {"valid"}, user : Users]
    \cup [scheme : {"Bearer"}, token : {"expired"}, user : {"u1"}]

\* authMiddleware with jwt.verify ignoring the expiry of a token
authMiddleware_ignoreExpiration(h) ==
    IF h.scheme # "Bearer" THEN [status |-> 401, user |-> "nobody"]
    ELSE IF h.token \notin {"valid", "expired"} THEN [status |-> 401, user |-> "nobody"]
    ELSE [status |-> 0, user |-> h.user]

\* middleware/auth.js: authMiddleware; status 0: next() was called
authMiddleware(h) ==
    IF h.scheme # "Bearer" THEN [status |-> 401, user |-> "nobody"]
    ELSE IF h.token # "valid" THEN [status |-> 401, user |-> "nobody"]
    ELSE [status |-> 0, user |-> h.user]

\* The answer texts of the model, by what the handlers and the local
\* evaluator read of them: present (a non-empty string), its length after
\* trim(), its words, its sentences, and the three keyword tests.
AnswerTexts ==
    {[present |-> FALSE, trimmed |-> 0, words |-> 0, sentences |-> 0,
      hasNumbers |-> FALSE, hasSpecifics |-> FALSE, hasStructure |-> FALSE],
     [present |-> TRUE, trimmed |-> 4, words |-> 1, sentences |-> 1,
      hasNumbers |-> FALSE, hasSpecifics |-> FALSE, hasStructure |-> FALSE],
     [present |-> TRUE, trimmed |-> 5, words |-> 1, sentences |-> 1,
      hasNumbers |-> FALSE, hasSpecifics |-> FALSE, hasStructure |-> FALSE]}

NoText == CHOOSE t \in AnswerTexts : ~t.present

Max(a, b) == IF a > b THEN a ELSE b

\* the value NaN of a JavaScript number; every number of the model is >= 0
NaN == -1

\* Math.min, Math.max: NaN when an argument converts to NaN
mathMin(a, b) == IF a = NaN \/ b = NaN THEN NaN ELSE Min(a, b)

mathMax(a, b) == IF a = NaN \/ b = NaN THEN NaN ELSE Max(a, b)

\* fallback.js: caps[difficulty] || 90.  caps is an object literal: for a
\* name it inherits from Object.prototype the lookup gives a function,
\* which is truthy and converts to NaN.
caps(difficulty) ==
    CASE difficulty = "Easy" -> 95
      [] difficulty = "Medium" -> 90
      [] difficulty = "Hard" -> 85
      [] difficulty = "Expert" -> 80
      [] difficulty \in ObjectPrototypeNames -> NaN
      [] OTHER -> 90

\* Math.floor(Math.random() * options.length) for the three phrase arrays
PhraseDraws == [positive : 0..4, improve : 0..4, brief : 0..2]

FirstPhrases == [positive |-> 0, improve |-> 0, brief |-> 0]

\* fallback.js: evaluateAnswerLocally; phrases are the three random draws
evaluateAnswerLocally(text, difficulty, phrases) ==
    LET s1 == 50 + (IF text.words >= 20 THEN 5 ELSE 0)
                 + (IF text.words >= 50 THEN 10 ELSE 0)
                 + (IF text.words >= 100 THEN 5 ELSE 0)
                 + (IF text.words >= 150 THEN 5 ELSE 0)
        s2 == s1 + (IF text.sentences >= 2 THEN 5 ELSE 0)
                 + (IF text.sentences >= 4 THEN 5 ELSE 0)
        s3 == s2 + (IF text.hasNumbers THEN 5 ELSE 0)
                 + (IF text.hasSpecifics THEN 5 ELSE 0)
                 + (IF text.hasStructure THEN 5 ELSE 0)
        score == mathMax(mathMin(s3, caps(difficulty)), 30)
    IN  [score |-> score,
         positive |-> phrases.positive,
         improve |-> phrases.improve,
         \* briefOptions are built from score >= 70, which is false for NaN
         brief |-> [option |-> phrases.brief, good |-> score # NaN /\ score >= 70]]

\* the scores a well-formed Gemini evaluation carries in the model
AiScores == {90}

\* interview.js: scoreToGrade
scoreToGrade(score) ==
    IF score >= 85 THEN "Excellent"
    ELSE IF score >= 70 THEN "Good"
    ELSE IF score >= 55 THEN "Average"
    ELSE IF score >= 40 THEN "Needs Improvement"
    ELSE "Poor"

\* report.js: scoreToGrade with 85 itself graded Good
reportScoreToGrade_strict(score) ==
    IF score > 85 THEN "Excellent"
    ELSE IF score >= 70 THEN "Good"
    ELSE IF score >= 55 THEN "Average"
    ELSE IF score >= 40 THEN "Needs Improvement"
    ELSE "Poor"

\* report.js: scoreToGrade
reportScoreToGrade(score) ==
    IF score >= 85 THEN "Excellent"
    ELSE IF score >= 70 THEN "Good"
    ELSE IF score >= 55 THEN "Average"
    ELSE IF score >= 40 THEN "Needs Improvement"
    ELSE "Poor"

\* fallback.js: generateReportLocally, const grade = avgScore >= 85 ? ...
localGrade(avgScore) ==
    IF avgScore >= 85 THEN "Excellent"
    ELSE IF avgScore >= 70 THEN "Good"
    ELSE IF avgScore >= 55 THEN "Average"
    ELSE IF avgScore >= 40 THEN "Needs Improvement"
    ELSE "Poor"

RECURSIVE SumScores(_)
SumScores(rows) ==
    IF rows = {} THEN 0
    ELSE LET r == CHOOSE x \in rows : TRUE
         IN  r.score + SumScores(rows \ {r})

\* Math.round(sum / n) for sum >= 0, n > 0
RoundDiv(sum, n) == (2 * sum + n) \div (2 * n)

\* The request bodies of the model.  A missing or empty field is "" (0 for
\* a number): the handlers test them with !field.
StartBodies ==
    LET full == [jobRole : JobRoles, interviewType : {"technical"},
                 difficulty : {"Medium"}, numQuestions : 1..MaxQuestions]
        one == CHOOSE b \in full : b.numQuestions = 1
    IN  full \cup {[one EXCEPT !.jobRole = ""], [one EXCEPT !.interviewType = ""],
                   [one EXCEPT !.difficulty = ""], [one EXCEPT !.numQuestions = 0]}

NoStartBody ==
    [jobRole |-> "", interviewType |-> "", difficulty |-> "", numQuestions |-> 0]

InterviewIds == 1..MaxInterviews

QuestionIds == 0..(MaxInterviews * MaxQuestions)

Ops == {"start", "answer", "complete", "history", "getInterview", "delete",
        "generate", "getReport"}

\* a request: the route, the Authorization header, :id and the body
Req(op, auth, id, start, questionId, answerText) ==
    [op |-> op, auth |-> auth, id |-> id, start |-> start,
     questionId |-> questionId, answerText |-> answerText]

NoReq == Req("none", [scheme |-> "none", token |-> "none", user |-> "nobody"],
             0, NoStartBody, 0, NoText)

\* a response: the status, the kind of the error a 500 reports, the
\* interviews the body holds data of, and the report object of the body
Res(status, error, data, report) ==
    [status |-> status, error |-> error, data |-> data, report |-> report]

NoRes == Res(0, "none", {}, NULL)

\* The state a handler works on: the tables, the counters, the suspended
\* requests, and what the handler has answered and done so far.
Api ==
    [db |-> db, nextId |-> nextId, inflight |-> inflight,
     genResponse |-> genResponse, res |-> NoRes, work |-> {}]

\* res.status(status).json(...)
respond(a, status, error, data, report) ==
    [a EXCEPT !.res = Res(status, error, data, report)]

\* history of the step: the tables were read ("read") or written ("write"),
\* callGemini was called ("gemini"), a local heuristic was called ("local")
did(a, w) == [a EXCEPT !.work = @ \cup w]

\* await callGemini(...): the handler is suspended with what it holds
suspend(a, req, user, interview, question, qas) ==
    [did(a, {"gemini"}) EXCEPT !.inflight =
        Append(@, [req |-> req, user |-> user, interview |-> interview,
                   question |-> question, qas |-> qas])]

\* the sequence s without its k-th element
Without(s, k) == SubSeq(s, 1, k - 1) \o SubSeq(s, k + 1, Len(s))

\* SELECT * FROM interviews WHERE id = ?, without the test of user_id
ownInterview_anyUser(d, id, user) ==
    {i \in d.interviews : i.id = id}

\* SELECT * FROM interviews WHERE id = ? AND user_id = ?
ownInterview(d, id, user) ==
    {i \in d.interviews : i.id = id /\ i.user_id = user}

\* questions q LEFT JOIN answers a ON a.question_id = q.id AND
\* a.interview_id = q.interview_id WHERE q.interview_id = ?, the rows with
\* an answer (answer_text is NOT NULL and never empty)
answeredQAs(d, id) ==
    {r \in d.answers :
        /\ r.interview_id = id
        /\ \E q \in d.questions : q.id = r.question_id /\ q.interview_id = id}

\* DELETE FROM interviews WHERE id = ?, with the ON DELETE CASCADE of
\* questions, answers and reports
deleteInterviewRow(d, id) ==
    [interviews |-> {i \in d.interviews : i.id # id},
     questions |-> {q \in d.questions : q.interview_id # id},
     answers |-> {r \in d.answers :
                    /\ r.interview_id # id
                    /\ \A q \in d.questions :
                         q.id = r.question_id => q.interview_id # id},
     reports |-> {r \in d.reports : r.interview_id # id}]

\* INSERT INTO answers
insertAnswer(d, row) == [d EXCEPT !.answers = @ \cup {row}]

\* validation of POST /start accepting a request without numQuestions
startInvalid_lax(body) ==
    body.jobRole = "" \/ body.interviewType = "" \/ body.difficulty = ""

\* interview.js: POST /start, the test of the required fields
startInvalid(body) ==
    \/ body.jobRole = "" \/ body.interviewType = ""
    \/ body.difficulty = "" \/ body.numQuestions = 0

\* interview.js: POST /:id/answer, the test of the body
answerInvalid(questionId, text) ==
    questionId = 0 \/ ~text.present \/ text.trimmed < 5

\* interview.js: POST /start, up to the await
postStart(a, req, user) ==
    IF startInvalid(req.start)
    THEN respond(a, 400, "none", {}, NULL)
    ELSE suspend(a, req, user, {}, {}, {})

\* the questions of a parsed Gemini answer that is an array: gem.len
\* elements, the last one null when gem.kind = "nullElement"
aiQuestions(gem) ==
    [i \in 1..gem.len |->
        [type |-> IF gem.kind = "nullElement" /\ i = gem.len THEN "null" ELSE "ai",
         idx |-> i, role |-> "", marker |-> FALSE]]

\* interview.js: POST /start, after the await; gem is the outcome of
\* callGemini and parseGeminiJSON, shuffled the outcome of the local sort
startResumes(a, k, gem, shuffled) ==
    LET c == a.inflight[k]
        body == c.req.start
        local == gem.kind \in {"throws", "notArray"}
        questions == IF local THEN generateLocalQuestions(body, shuffled)
                     ELSE slice(aiQuestions(gem), body.numQuestions)
        interviewId == a.nextId.interviews
        row == [id |-> interviewId, user_id |-> c.user,
                difficulty |-> body.difficulty, num_questions |-> Len(questions),
                status |-> "in_progress", overall_score |-> NULL, grade |-> NULL]
        a1 == [did(a, (IF local THEN {"local"} ELSE {}) \cup {"write"})
                 EXCEPT !.inflight = Without(@, k),
                        !.db.interviews = @ \cup {row},
                        !.nextId.interviews = @ + 1]
        qrows == {[id |-> a.nextId.questions + i - 1, interview_id |-> interviewId,
                   question_index |-> i - 1, question_text |-> questions[i]]
                    : i \in DOMAIN questions}
    IN  IF local /\ spreadThrows(body.interviewType)
        THEN \* generateLocalQuestions throws inside the catch block
             respond([did(a, {"local"}) EXCEPT !.inflight = Without(@, k)],
                     500, "TypeError", {}, NULL)
        ELSE IF \E i \in DOMAIN questions : questions[i].type = "null"
        THEN \* question_text NOT NULL: insertMany throws and is rolled back
             respond(a1, 500, "NOTNULL", {}, NULL)
        ELSE respond([a1 EXCEPT !.db.questions = @ \cup qrows,
                                !.nextId.questions = @ + Len(questions)],
                     201, "none", {interviewId}, NULL)

\* interview.js: POST /:id/answer, up to the await
postAnswer(a, req, user) ==
    IF answerInvalid(req.questionId, req.answerText)
    THEN respond(a, 400, "none", {}, NULL)
    ELSE LET interview == ownInterview(a.db, req.id, user)
             question == {q \in a.db.questions :
                            q.id = req.questionId /\ q.interview_id = req.id}
         IN  IF interview = {} THEN respond(did(a, {"read"}), 404, "none", {}, NULL)
             ELSE IF question = {} THEN respond(did(a, {"read"}), 404, "none", {}, NULL)
             ELSE suspend(did(a, {"read"}), req, user, interview, question, {})

\* interview.js: POST /:id/answer, after the await
answerResumes(a, k, gem) ==
    LET c == a.inflight[k]
        interview == CHOOSE i \in c.interview : TRUE
        local == gem.kind = "throws"
        score == IF local
                 THEN evaluateAnswerLocally(c.req.answerText, interview.difficulty,
                                            FirstPhrases).score
                 ELSE gem.score
        a1 == [did(a, IF local THEN {"local"} ELSE {}) EXCEPT !.inflight = Without(@, k)]
        row == [id |-> a.nextId.answers, interview_id |-> c.req.id,
                question_id |-> c.req.questionId, score |-> score]
    IN  IF gem.kind = "badShape"
        THEN \* feedback.score is undefined (or feedback is null): run() throws
             respond(a1, 500, "TypeError", {}, NULL)
        ELSE IF \/ \A i \in a.db.interviews : i.id # c.req.id
                \/ \A q \in a.db.questions : q.id # c.req.questionId
        THEN \* the interview was deleted meanwhile: FOREIGN KEY constraint failed
             respond(a1, 500, "FOREIGNKEY", {}, NULL)
        ELSE respond([did(a1, {"write"}) EXCEPT !.db = insertAnswer(@, row),
                                                !.nextId.answers = @ + 1],
                     200, "none", {c.req.id}, NULL)

\* PATCH /:id/complete that also deletes the report of the interview
patchComplete_dropsReport(a, req, user) ==
    LET interview == ownInterview(a.db, req.id, user)
    IN  IF interview = {} THEN respond(did(a, {"read"}), 404, "none", {}, NULL)
        ELSE respond(
               [did(a, {"read", "write"}) EXCEPT
                   !.db.interviews =
                       {IF i.id = req.id THEN [i EXCEPT !.status = "completed"]
                        ELSE i : i \in @},
                   !.db.reports = {r \in @ : r.interview_id # req.id}],
               200, "none", {req.id}, NULL)

\* interview.js: PATCH /:id/complete
patchComplete(a, req, user) ==
    LET interview == ownInterview(a.db, req.id, user)
        rows == {r \in a.db.answers : r.interview_id = req.id}
        \* Math.round(avgRow.avg_score || 0)
        overallScore == IF rows = {} THEN 0
                        ELSE RoundDiv(SumScores(rows), Cardinality(rows))
    IN  IF interview = {} THEN respond(did(a, {"read"}), 404, "none", {}, NULL)
        ELSE respond(
               [did(a, {"read", "write"}) EXCEPT !.db.interviews =
                   {IF i.id = req.id
                    THEN [i EXCEPT !.status = "completed",
                                   !.overall_score = <<overallScore>>,
                                   !.grade = <<scoreToGrade(overallScore)>>]
                    ELSE i : i \in @}],
               200, "none", {req.id}, NULL)

\* interview.js: GET /history
getHistory(a, req, user) ==
    respond(did(a, {"read"}), 200, "none",
            {i.id : i \in {x \in a.db.interviews : x.user_id = user}}, NULL)

\* interview.js: GET /:id
getInterview(a, req, user) ==
    LET interview == ownInterview(a.db, req.id, user)
        report == {r \in a.db.reports : r.interview_id = req.id}
    IN  IF interview = {} THEN respond(did(a, {"read"}), 404, "none", {}, NULL)
        ELSE respond(did(a, {"read"}), 200, "none", {req.id},
                     IF report = {} THEN NULL ELSE <<CHOOSE r \in report : TRUE>>)

\* interview.js: DELETE /:id
deleteInterview(a, req, user) ==
    LET interview == ownInterview(a.db, req.id, user)
    IN  IF interview = {} THEN respond(did(a, {"read"}), 404, "none", {}, NULL)
        ELSE respond([did(a, {"read", "write"}) EXCEPT
                         !.db = deleteInterviewRow(@, req.id)],
                     200, "none", {}, NULL)

\* JSON.stringify of a value that is defined, and JSON.parse of the result
stringify(v) == [json |-> v]

parse(s) == s.json

\* fallback.js: vary(base, range); k is Math.floor(Math.random() * range * 2 - range)
vary(base, k) == Min(100, Max(0, base + k))

\* Math.random() gives a number u with 0 <= u < 1: the model takes the
\* numbers n / RandomSteps, n in Draws
Draws == 0..(RandomSteps - 1)

\* Math.floor(Math.random() * range * 2 - range) for Math.random() = n / RandomSteps
drawn(n, range) == ((n * range * 2) \div RandomSteps) - range

Skills == {"communication", "relevance", "confidence", "structure", "depth"}

\* fallback.js: the range of each call of vary (10 when not given)
rangeOf(skill) ==
    CASE skill = "confidence" -> 8
      [] skill = "depth" -> 12
      [] OTHER -> 10

\* the five calls of Math.random() all giving the least, or all the
\* greatest, number
ExtremeDraws == {[s \in Skills |-> n] : n \in {0, RandomSteps - 1}}

\* fallback.js: generateReportLocally; draw[s] is the Math.random() of the
\* call of vary for the sub-skill s
generateReportLocally(interview, qas, draw) ==
    LET scores == {qa \in qas : qa.score # 0}
        avgScore == IF scores # {}
                    THEN RoundDiv(SumScores(scores), Cardinality(scores))
                    ELSE 60
    IN  [overallScore |-> avgScore,
         grade |-> localGrade(avgScore),
         communication |-> vary(avgScore, drawn(draw["communication"], rangeOf("communication"))),
         relevance |-> vary(avgScore, drawn(draw["relevance"], rangeOf("relevance"))),
         confidence |-> vary(avgScore, drawn(draw["confidence"], rangeOf("confidence"))),
         structure |-> vary(avgScore, drawn(draw["structure"], rangeOf("structure"))),
         depth |-> vary(avgScore, drawn(draw["depth"], rangeOf("depth"))),
         strengths |-> "local strengths",
         improvements |-> "local improvements",
         recommendation |-> "local recommendation"]

\* a Gemini analysis with every field of the prompt's schema
aiAnalysis(score) ==
    [overallScore |-> score, grade |-> scoreToGrade(score),
     communication |-> score, relevance |-> score, confidence |-> score,
     structure |-> score, depth |-> score,
     strengths |-> "ai strengths", improvements |-> "ai improvements",
     recommendation |-> "ai recommendation"]

\* report.js: POST /generate/:interviewId, up to the await
\* POST /generate/:interviewId without the test of answeredQAs.length
postGenerate_noCheck(a, req, user) ==
    LET interview == ownInterview(a.db, req.id, user)
        qas == answeredQAs(a.db, req.id)
    IN  IF interview = {} THEN respond(did(a, {"read"}), 404, "none", {}, NULL)
        ELSE suspend(did(a, {"read"}), req, user, interview, {}, qas)

postGenerate(a, req, user) ==
    LET interview == ownInterview(a.db, req.id, user)
        qas == answeredQAs(a.db, req.id)
    IN  IF interview = {} THEN respond(did(a, {"read"}), 404, "none", {}, NULL)
        ELSE IF qas = {} THEN respond(did(a, {"read"}), 400, "none", {}, NULL)
        ELSE suspend(did(a, {"read"}), req, user, interview, {}, qas)

\* a regeneration that leaves the old report in the table
deleteReport_keeps(d, id) == d

\* report.js: DELETE FROM reports WHERE interview_id = ?
deleteReport(d, id) == [d EXCEPT !.reports = {r \in @ : r.interview_id # id}]

\* report.js: POST /generate/:interviewId, after the await
generateResumes(a, k, gem, draw) ==
    LET c == a.inflight[k]
        id == c.req.id
        interview == CHOOSE i \in c.interview : TRUE
        local == gem.kind = "throws"
        analysis == IF local THEN generateReportLocally(interview, c.qas, draw)
                    ELSE aiAnalysis(gem.score)
        a1 == [did(a, (IF local THEN {"local"} ELSE {}) \cup {"write"})
                 EXCEPT !.inflight = Without(@, k),
                        !.db = deleteReport(@, id)]
        row == [id |-> a.nextId.reports, interview_id |-> id,
                overall_score |-> analysis.overallScore, grade |-> analysis.grade,
                communication |-> analysis.communication,
                relevance |-> analysis.relevance,
                confidence |-> analysis.confidence,
                structure |-> analysis.structure, depth |-> analysis.depth,
                strengths |-> stringify(analysis.strengths),
                improvements |-> stringify(analysis.improvements),
                recommendation |-> analysis.recommendation,
                generated_at |-> "t"]
        body == [overallScore |-> analysis.overallScore, grade |-> analysis.grade,
                 communication |-> analysis.communication,
                 relevance |-> analysis.relevance,
                 confidence |-> analysis.confidence,
                 structure |-> analysis.structure, depth |-> analysis.depth,
                 strengths |-> analysis.strengths,
                 improvements |-> analysis.improvements,
                 recommendation |-> analysis.recommendation,
                 generatedAt |-> "t"]
    IN  IF gem.kind = "badShape"
        THEN \* analysis.overallScore is undefined: run() of the INSERT throws
             respond(a1, 500, "TypeError", {}, NULL)
        ELSE IF \A i \in a.db.interviews : i.id # id
        THEN \* the interview was deleted meanwhile: FOREIGN KEY constraint failed
             respond(a1, 500, "FOREIGNKEY", {}, NULL)
        ELSE IF \E r \in a1.db.reports : r.interview_id = id
        THEN \* interview_id UNIQUE: UNIQUE constraint failed
             respond(a1, 500, "UNIQUE", {}, NULL)
        ELSE respond(
               [a1 EXCEPT !.db.reports = @ \cup {row},
                          !.nextId.reports = @ + 1,
                          !.db.interviews =
                              {IF i.id = id
                               THEN [i EXCEPT !.status = "completed",
                                              !.overall_score = <<analysis.overallScore>>,
                                              !.grade = <<analysis.grade>>]
                               ELSE i : i \in @},
                          !.genResponse = [id |-> id, report |-> <<body>>]],
               200, "none", {id}, <<body>>)

\* report.js: GET /:interviewId
getReport(a, req, user) ==
    LET interview == ownInterview(a.db, req.id, user)
        report == {r \in a.db.reports : r.interview_id = req.id}
        row == CHOOSE r \in report : TRUE
    IN  IF interview = {} THEN respond(did(a, {"read"}), 404, "none", {}, NULL)
        ELSE IF report = {} THEN respond(did(a, {"read"}), 404, "none", {}, NULL)
        ELSE respond(did(a, {"read"}), 200, "none", {req.id},
                     <<[row EXCEPT !.strengths = parse(@),
                                   !.improvements = parse(@)]>>)

\* The rowids and the suspended requests stay within the bounds of the
\* model: every suspended request can still insert its rows.
pending(a, op) ==
    Cardinality({k \in DOMAIN a.inflight : a.inflight[k].req.op = op})

WithinApiBounds(a) ==
    /\ Len(a.inflight) <= MaxInflight
    /\ a.nextId.interviews - 1 + pending(a, "start") <= MaxInterviews
    /\ a.nextId.answers - 1 + pending(a, "answer") <= MaxAnswers
    /\ a.nextId.reports - 1 + pending(a, "generate") <= MaxReports

\* a step of the backend: the response is sent, the state is the handler's
Serve(req, a) ==
    /\ WithinApiBounds(a)
    /\ db' = a.db
    /\ nextId' = a.nextId
    /\ inflight' = a.inflight
    /\ genResponse' = a.genResponse
    /\ lastReq' = req
    /\ lastRes' = a.res
    /\ work' = a.work
    /\ UNCHANGED <<clientVars, fnVars>>

\* router.use(authMiddleware) of routes/interview.js and of routes/report.js:
\* a request to any route of the router is answered by the middleware
RouterRejects ==
    \E router \in {"interview/*", "report/*"}, auth \in AuthHeaders :
      /\ authMiddleware(auth).status = 401
      /\ Serve(Req(router, auth, 0, NoStartBody, 0, NoText),
               respond(Api, authMiddleware(auth).status, "none", {}, NULL))

\* router.use(authMiddleware): the handler runs when next() was called
Route(req, handled) ==
    /\ authMiddleware(req.auth).status = 0
    /\ Serve(req, handled)

\* The answer bodies of the model: a text that passes the validation with
\* any questionId, the other texts with the first one.
SampleText == CHOOSE t \in AnswerTexts : t.trimmed >= 5

Sent(q, text) == q = 1 \/ text = SampleText

PostStart ==
    \E auth \in AuthHeaders, body \in StartBodies :
      LET req == Req("start", auth, 0, body, 0, NoText)
      IN  Route(req, postStart(Api, req, authMiddleware(auth).user))

PostAnswer ==
    \E auth \in AuthHeaders, id \in InterviewIds, q \in QuestionIds,
       text \in AnswerTexts :
      LET req == Req("answer", auth, id, NoStartBody, q, text)
      IN  Sent(q, text) /\ Route(req, postAnswer(Api, req, authMiddleware(auth).user))

PatchComplete ==
    \E auth \in AuthHeaders, id \in InterviewIds :
      LET req == Req("complete", auth, id, NoStartBody, 0, NoText)
      IN  Route(req, patchComplete(Api, req, authMiddleware(auth).user))

GetHistory ==
    \E auth \in AuthHeaders :
      LET req == Req("history", auth, 0, NoStartBody, 0, NoText)
      IN  Route(req, getHistory(Api, req, authMiddleware(auth).user))

GetInterview ==
    \E auth \in AuthHeaders, id \in InterviewIds :
      LET req == Req("getInterview", auth, id, NoStartBody, 0, NoText)
      IN  Route(req, getInterview(Api, req, authMiddleware(auth).user))

DeleteInterview ==
    \E auth \in AuthHeaders, id \in InterviewIds :
      LET req == Req("delete", auth, id, NoStartBody, 0, NoText)
      IN  Route(req, deleteInterview(Api, req, authMiddleware(auth).user))

PostGenerate ==
    \E auth \in AuthHeaders, id \in InterviewIds :
      LET req == Req("generate", auth, id, NoStartBody, 0, NoText)
      IN  Route(req, postGenerate(Api, req, authMiddleware(auth).user))

GetReport ==
    \E auth \in AuthHeaders, id \in InterviewIds :
      LET req == Req("getReport", auth, id, NoStartBody, 0, NoText)
      IN  Route(req, getReport(Api, req, authMiddleware(auth).user))

\* The outcomes of "await callGemini(...); parseGeminiJSON(raw)": it throws
\* (no key, network error, non-OK status, 429 after the retries, empty
\* text, JSON.parse fails), or it yields a parsed value: one of the shape
\* the prompt asks for, or another one.
StartOutcomes ==
    [kind : {"throws", "notArray"}, len : {0}, score : {0}]
    \cup [kind : {"strings", "nullElement"}, len : 1..MaxQuestions, score : {0}]

EvalOutcomes ==
    [kind : {"throws", "badShape"}, len : {0}, score : {0}]
    \cup [kind : {"good"}, len : {0}, score : AiScores]

\* the order of the pool the backend's model takes the sort to produce
SampleShuffles(pool) == {pool}

StartResumes ==
    \E k \in DOMAIN inflight :
      /\ inflight[k].req.op = "start"
      /\ \E gem \in StartOutcomes,
            shuffled \in SampleShuffles(poolOf(inflight[k].req.start.interviewType)) :
           Serve(inflight[k].req, startResumes(Api, k, gem, shuffled))

AnswerResumes ==
    \E k \in DOMAIN inflight :
      /\ inflight[k].req.op = "answer"
      /\ \E gem \in EvalOutcomes :
           Serve(inflight[k].req, answerResumes(Api, k, gem))

GenerateResumes ==
    \E k \in DOMAIN inflight :
      /\ inflight[k].req.op = "generate"
      /\ \E gem \in EvalOutcomes, draw \in ExtremeDraws :
           Serve(inflight[k].req, generateResumes(Api, k, gem, draw))

-----------------------------------------------------------------------------
(***************************************************************************)
(*                             CALLGEMINI                                  *)
(*                                                                         *)
(* One call of callGemini of config/gemini.js at a time.  The call is at   *)
(* "fetch" while it awaits fetch, at "sleep" while it awaits the timer of  *)
(* a retry, at "json" while it awaits response.json(); it ends at          *)
(* "returned" or "threw".  What the network does is drawn from the sets    *)
(* below.                                                                  *)
(***************************************************************************)
MAX_RETRIES == 3

\* process.env.GEMINI_API_KEY: unset, the placeholder of .env.example, a key
ApiKeys == {"", "your_gemini_api_key_here", "key"}

\* the temperature argument, in tenths: 0.8 (start), 0.5 (answer), 0.4 (report)
Temperatures == {8, 5, 4}

\* the HTTP status of a response
Statuses == {200, 400, 429, 503}

\* the parsed body: null, or an object with or without error.message and
\* with the text of the first candidate missing ("none"), empty or not
Bodies ==
    [null : {TRUE}, message : {""}, text : {"none"}]
    \cup [null : {FALSE}, message : {"", "quota"}, text : {"none", "", "[...]"}]

NotConfigured == "Gemini API key not configured. Set GEMINI_API_KEY in your .env file."

EmptyResponse == "Empty response from Gemini"

RateLimitExceeded ==
    "Gemini API rate limit exceeded after retries. Please wait a minute and try again."

\* `Gemini API error: ${response.status}`
apiError(status) ==
    CASE status = 400 -> "Gemini API error: 400"
      [] status = 429 -> "Gemini API error: 429"
      [] status = 503 -> "Gemini API error: 503"

NoGemini ==
    [pc |-> "idle", apiKey |-> "", temperature |-> 0, attempt |-> 0,
     attempts |-> 0, waitSec |-> 0, log |-> <<>>, text |-> "none", error |-> ""]

\* Math.pow(2, n)
RECURSIVE pow2(_)
pow2(n) == IF n = 0 THEN 1 ELSE 2 * pow2(n - 1)

\* response.ok
ok(status) == status >= 200 /\ status <= 299

\* throw new Error(message)
throw(g, message) == [g EXCEPT !.pc = "threw", !.error = message]

\* the head of the for loop: the test of attempt, then the fetch of the
\* attempt; past the loop, the throw of line 51
loop(g) ==
    IF g.attempt <= MAX_RETRIES
    THEN [g EXCEPT !.pc = "fetch", !.attempts = @ + 1]
    ELSE throw(g, RateLimitExceeded)

\* gemini.js: callGemini, up to its first await
callGemini(apiKey, temperature) ==
    LET g == [NoGemini EXCEPT !.apiKey = apiKey, !.temperature = temperature]
    IN  IF apiKey = "" \/ apiKey = "your_gemini_api_key_here"
        THEN throw(g, NotConfigured)
        ELSE loop([g EXCEPT !.attempt = 1])

\* the test of line 32: a 429 with attempts left
retries(g, status) == status = 429 /\ g.attempt < MAX_RETRIES

\* fetch has resolved with a response of this status
fetched(g, status) ==
    LET g1 == [g EXCEPT !.log = Append(@, status)]
    IN  IF retries(g, status)
        THEN [g1 EXCEPT !.pc = "sleep", !.waitSec = pow2(g.attempt) * 5]
        ELSE [g1 EXCEPT !.pc = "json"]

\* the timer of the retry has fired: continue, attempt++
slept(g) == loop([g EXCEPT !.attempt = @ + 1, !.waitSec = 0])

\* response.json() has resolved with this body
parsed(g, body) ==
    LET status == g.log[Len(g.log)]
    IN  IF body.null
        THEN \* data.error, data.candidates of null
             throw(g, "TypeError")
        ELSE IF ~ok(status)
        THEN throw(g, IF body.message # "" THEN body.message ELSE apiError(status))
        ELSE IF body.text \in {"none", ""}
        THEN throw(g, EmptyResponse)
        ELSE [g EXCEPT !.pc = "returned", !.text = body.text]

\* a route calls callGemini
CallGemini ==
    /\ gemini.pc = "idle"
    /\ \E apiKey \in ApiKeys, temperature \in Temperatures :
         gemini' = callGemini(apiKey, temperature)
    /\ UNCHANGED <<request, selection, thrown, call, result, clientVars, apiVars>>

\* fetch resolves
FetchResolves ==
    /\ gemini.pc = "fetch"
    /\ \E status \in Statuses : gemini' = fetched(gemini, status)
    /\ UNCHANGED <<request, selection, thrown, call, result, clientVars, apiVars>>

\* fetch rejects (no connection): the rejection leaves callGemini
FetchRejects ==
    /\ gemini.pc = "fetch"
    /\ gemini' = throw(gemini, "FetchError")
    /\ UNCHANGED <<request, selection, thrown, call, result, clientVars, apiVars>>

\* the setTimeout of waitSec seconds fires
RetryTimerFires ==
    /\ gemini.pc = "sleep"
    /\ gemini' = slept(gemini)
    /\ UNCHANGED <<request, selection, thrown, call, result, clientVars, apiVars>>

\* response.json() resolves
JsonResolves ==
    /\ gemini.pc = "json"
    /\ \E body \in Bodies : gemini' = parsed(gemini, body)
    /\ UNCHANGED <<request, selection, thrown, call, result, clientVars, apiVars>>

\* response.json() rejects (the body is not JSON)
JsonRejects ==
    /\ gemini.pc = "json"
    /\ gemini' = throw(gemini, "invalid-json")
    /\ UNCHANGED <<request, selection, thrown, call, result, clientVars, apiVars>>

\* the caller has the text or the exception; the next call can be made
CallEnds ==
    /\ gemini.pc \in {"returned", "threw"}
    /\ gemini' = NoGemini
    /\ UNCHANGED <<request, selection, thrown, call, result, clientVars, apiVars>>

-----------------------------------------------------------------------------
(***************************************************************************)
(*                        THE SCORING FUNCTIONS                            *)
(*                                                                         *)
(* evaluateAnswerLocally and generateReportLocally of config/fallback.js   *)
(* and the score-to-grade conversions, called on their own with inputs     *)
(* drawn from the sets below.                                              *)
(***************************************************************************)
WordCounts == {1, 19, 20, 49, 50, 100, 150}

SentenceCounts == {0, 1, 2, 4}

\* non-empty answer texts, by what evaluateAnswerLocally reads of them
EvalTexts ==
    {[present |-> TRUE, trimmed |-> 6 * w, words |-> w, sentences |-> n,
      hasNumbers |-> a, hasSpecifics |-> b, hasStructure |-> c] :
        w \in WordCounts, n \in SentenceCounts,
        a \in BOOLEAN, b \in BOOLEAN, c \in BOOLEAN}

\* difficulty is any string: POST /start only tests that it is not empty
Difficulties ==
    {"Easy", "Medium", "Hard", "Expert", "Beginner"} \cup ObjectPrototypeNames

SamplePhrases == {FirstPhrases, [positive |-> 4, improve |-> 2, brief |-> 2]}

\* the scores of the answered questions of an interview, in their order
SampleScores == {0, 5, 50, 95, 100}

ScoreLists ==
    {<<>>} \cup {<<x>> : x \in SampleScores}
    \cup {<<x, y>> : x \in SampleScores, y \in SampleScores}
    \cup {<<x, y, z>> : x \in {0, 50}, y \in {50, 95}, z \in {0, 100}}

\* the rows of qas for a list of scores
qasOf(scores) == {[id |-> i, score |-> scores[i]] : i \in DOMAIN scores}

\* one call of Math.random() giving any number, the others the least or
\* the greatest
ReportDraws ==
    {[s \in Skills |-> IF s = t THEN n ELSE m] :
        t \in Skills, n \in Draws, m \in {0, RandomSteps - 1}}

ReportInputs ==
    (ScoreLists \X ExtremeDraws)
    \cup ({<<x>> : x \in SampleScores \ {0}} \X ReportDraws)

NoCall == [fn |-> "none"]

NoResult == [score |-> 0]

\* a call of evaluateAnswerLocally
Evaluate ==
    /\ call.fn = "none"
    /\ \E text \in EvalTexts, difficulty \in Difficulties,
          phrases \in SamplePhrases :
         /\ call' = [fn |-> "evaluate", text |-> text,
                     difficulty |-> difficulty, phrases |-> phrases]
         /\ result' = evaluateAnswerLocally(text, difficulty, phrases)
    /\ UNCHANGED <<request, selection, thrown, gemini, clientVars, apiVars>>

\* a call of generateReportLocally
Report ==
    /\ call.fn = "none"
    /\ \E in \in ReportInputs :
         /\ call' = [fn |-> "report", scores |-> in[1], draw |-> in[2]]
         /\ result' = generateReportLocally([id |-> 0], qasOf(in[1]), in[2])
    /\ UNCHANGED <<request, selection, thrown, gemini, clientVars, apiVars>>

\* a score converted to its grade at the three places that do it
Grade ==
    /\ call.fn = "none"
    /\ \E score \in 0..100 :
         /\ call' = [fn |-> "grade", score |-> score]
         /\ result' = [interview |-> scoreToGrade(score),
                       report |-> reportScoreToGrade(score),
                       local |-> localGrade(score)]
    /\ UNCHANGED <<request, selection, thrown, gemini, clientVars, apiVars>>

\* the call has returned; the next one can be made
Return ==
    /\ call.fn # "none"
    /\ call' = NoCall
    /\ result' = NoResult
    /\ UNCHANGED <<request, selection, thrown, gemini, clientVars, apiVars>>

-----------------------------------------------------------------------------
(***************************************************************************)
(* The specifications.                                                     *)
(***************************************************************************)
ClientNext ==
    \/ Login \/ ClickNavigate \/ ClickLogout \/ HistoryUnauthorized
    \/ ClickStartInterview \/ StartDone
    \/ ClickViewInterview \/ ViewReportDone \/ ViewGenerateDone \/ ViewResumeDone
    \/ ClickSubmitAnswer \/ SubmitDone \/ ClickSkip \/ ClickNext \/ ClickFinish
    \/ FinishCompleteDone \/ FinishReportDone
    \/ ClickToggleCamera \/ CameraGranted \/ CameraDenied
    \/ ClickDismissWarning \/ ClickDismissTerminated \/ DismissTerminatedDone
    \/ VisibilityChange \/ WindowBlur \/ BlurTimerFires \/ FaceDetectionTick
    \/ CooldownTimerFires \/ DismissTimerFires

InitClient ==
    /\ screen = "auth"
    /\ currentInterview = NoInterview
    /\ currentQIndex = 0
    /\ feedbackReceived = FALSE
    /\ cameraEnabled = TRUE
    /\ cameraStream = FALSE
    /\ proctorWarnings = 0
    /\ proctorActive = FALSE
    /\ faceDetectionInterval = FALSE
    /\ previousFrameData = FALSE
    /\ proctorCooldown = FALSE
    /\ warningModal = FALSE
    /\ terminatedModal = FALSE
    /\ cooldownTimers = 0
    /\ dismissTimers = 0
    /\ blurTimers = 0
    /\ camPending = 0
    /\ flow = Idle
    /\ dismissPc = "none"
    /\ srv = "none"
    /\ emitted = <<>>
    /\ sessionTerminated = FALSE
    /\ staleCooldown = 0
    /\ staleDismiss = 0
    /\ db = EmptyDb
    /\ nextId = FirstIds
    /\ inflight = <<>>
    /\ lastReq = NoReq
    /\ lastRes = NoRes
    /\ work = {}
    /\ genResponse = [id |-> 0, report |-> NULL]
    /\ request = NoRequest
    /\ selection = <<>>
    /\ thrown = FALSE
    /\ call = NoCall
    /\ result = NoResult
    /\ gemini = NoGemini

SpecClient == InitClient /\ [][ClientNext]_vars

ApiNext ==
    \/ RouterRejects
    \/ PostStart \/ StartResumes
    \/ PostAnswer \/ AnswerResumes
    \/ PatchComplete \/ GetHistory \/ GetInterview \/ DeleteInterview
    \/ PostGenerate \/ GenerateResumes \/ GetReport

InitApi ==
    /\ screen = "auth"
    /\ currentInterview = NoInterview
    /\ currentQIndex = 0
    /\ feedbackReceived = FALSE
    /\ cameraEnabled = TRUE
    /\ cameraStream = FALSE
    /\ proctorWarnings = 0
    /\ proctorActive = FALSE
    /\ faceDetectionInterval = FALSE
    /\ previousFrameData = FALSE
    /\ proctorCooldown = FALSE
    /\ warningModal = FALSE
    /\ terminatedModal = FALSE
    /\ cooldownTimers = 0
    /\ dismissTimers = 0
    /\ blurTimers = 0
    /\ camPending = 0
    /\ flow = Idle
    /\ dismissPc = "none"
    /\ srv = "none"
    /\ emitted = <<>>
    /\ sessionTerminated = FALSE
    /\ staleCooldown = 0
    /\ staleDismiss = 0
    /\ db = EmptyDb
    /\ nextId = FirstIds
    /\ inflight = <<>>
    /\ lastReq = NoReq
    /\ lastRes = NoRes
    /\ work = {}
    /\ genResponse = [id |-> 0, report |-> NULL]
    /\ request = NoRequest
    /\ selection = <<>>
    /\ thrown = FALSE
    /\ call = NoCall
    /\ result = NoResult
    /\ gemini = NoGemini

SpecApi == InitApi /\ [][ApiNext]_vars

QuestionsNext == Select \/ NextRequest

InitQuestions ==
    /\ screen = "auth"
    /\ currentInterview = NoInterview
    /\ currentQIndex = 0
    /\ feedbackReceived = FALSE
    /\ cameraEnabled = TRUE
    /\ cameraStream = FALSE
    /\ proctorWarnings = 0
    /\ proctorActive = FALSE
    /\ faceDetectionInterval = FALSE
    /\ previousFrameData = FALSE
    /\ proctorCooldown = FALSE
    /\ warningModal = FALSE
    /\ terminatedModal = FALSE
    /\ cooldownTimers = 0
    /\ dismissTimers = 0
    /\ blurTimers = 0
    /\ camPending = 0
    /\ flow = Idle
    /\ dismissPc = "none"
    /\ srv = "none"
    /\ emitted = <<>>
    /\ sessionTerminated = FALSE
    /\ staleCooldown = 0
    /\ staleDismiss = 0
    /\ db = EmptyDb
    /\ nextId = FirstIds
    /\ inflight = <<>>
    /\ lastReq = NoReq
    /\ lastRes = NoRes
    /\ work = {}
    /\ genResponse = [id |-> 0, report |-> NULL]
    /\ request \in SelectionRequests
    /\ selection = <<>>
    /\ thrown = FALSE
    /\ call = NoCall
    /\ result = NoResult
    /\ gemini = NoGemini

SpecQuestions == InitQuestions /\ [][QuestionsNext]_vars

FunctionsNext == Evaluate \/ Report \/ Grade \/ Return

InitFunctions ==
    /\ screen = "auth"
    /\ currentInterview = NoInterview
    /\ currentQIndex = 0
    /\ feedbackReceived = FALSE
    /\ cameraEnabled = TRUE
    /\ cameraStream = FALSE
    /\ proctorWarnings = 0
    /\ proctorActive = FALSE
    /\ faceDetectionInterval = FALSE
    /\ previousFrameData = FALSE
    /\ proctorCooldown = FALSE
    /\ warningModal = FALSE
    /\ terminatedModal = FALSE
    /\ cooldownTimers = 0
    /\ dismissTimers = 0
    /\ blurTimers = 0
    /\ camPending = 0
    /\ flow = Idle
    /\ dismissPc = "none"
    /\ srv = "none"
    /\ emitted = <<>>
    /\ sessionTerminated = FALSE
    /\ staleCooldown = 0
    /\ staleDismiss = 0
    /\ db = EmptyDb
    /\ nextId = FirstIds
    /\ inflight = <<>>
    /\ lastReq = NoReq
    /\ lastRes = NoRes
    /\ work = {}
    /\ genResponse = [id |-> 0, report |-> NULL]
    /\ request = NoRequest
    /\ selection = <<>>
    /\ thrown = FALSE
    /\ call = NoCall
    /\ result = NoResult
    /\ gemini = NoGemini

SpecFunctions == InitFunctions /\ [][FunctionsNext]_vars

GeminiNext ==
    \/ CallGemini
    \/ FetchResolves
    \/ FetchRejects
    \/ RetryTimerFires
    \/ JsonResolves
    \/ JsonRejects
    \/ CallEnds

InitGemini ==
    /\ screen = "auth"
    /\ currentInterview = NoInterview
    /\ currentQIndex = 0
    /\ feedbackReceived = FALSE
    /\ cameraEnabled = TRUE
    /\ cameraStream = FALSE
    /\ proctorWarnings = 0
    /\ proctorActive = FALSE
    /\ faceDetectionInterval = FALSE
    /\ previousFrameData = FALSE
    /\ proctorCooldown = FALSE
    /\ warningModal = FALSE
    /\ terminatedModal = FALSE
    /\ cooldownTimers = 0
    /\ dismissTimers = 0
    /\ blurTimers = 0
    /\ camPending = 0
    /\ flow = Idle
    /\ dismissPc = "none"
    /\ srv = "none"
    /\ emitted = <<>>
    /\ sessionTerminated = FALSE
    /\ staleCooldown = 0
    /\ staleDismiss = 0
    /\ db = EmptyDb
    /\ nextId = FirstIds
    /\ inflight = <<>>
    /\ lastReq = NoReq
    /\ lastRes = NoRes
    /\ work = {}
    /\ genResponse = [id |-> 0, report |-> NULL]
    /\ request = NoRequest
    /\ selection = <<>>
    /\ thrown = FALSE
    /\ call = NoCall
    /\ result = NoResult
    /\ gemini = NoGemini

SpecGemini == InitGemini /\ [][GeminiNext]_vars

-----------------------------------------------------------------------------
(***************************************************************************)
(* Properties of the client (SpecClient).                                  *)
(***************************************************************************)

\* C1: once proctoring has terminated a session, termination is terminal for
\* that session: as long as no new session is started or resumed, no step
\* changes the warning count, emits a warning or termination event, or
\* reactivates proctoring.
C1_TerminationIsTerminal ==
    [][(sessionTerminated /\ sessionTerminated')
         => /\ proctorWarnings' = proctorWarnings
            /\ emitted' = <<>>
            /\ ~proctorActive']_vars

\* C2: the k-th accepted violation of an activation emits exactly one event,
\* a warning carrying (reason, k) when k < 3 and a termination carrying the
\* reason when k = 3; no warning carries the count 3, no termination is
\* emitted before the count reached 3, and nothing else emits an event.
C2_OneEventPerViolation ==
    [][/\ (proctorWarnings' = proctorWarnings + 1)
            => \E r \in Reasons :
                 emitted' = <<[type |-> IF proctorWarnings' < MAX_PROCTOR_WARNINGS
                                        THEN "warning" ELSE "terminated",
                               reason |-> r, count |-> proctorWarnings']>>
       /\ (emitted' # <<>>) => (proctorWarnings' = proctorWarnings + 1)
       /\ \A i \in DOMAIN emitted' :
            /\ emitted'[i].type = "warning"
                 => emitted'[i].count < MAX_PROCTOR_WARNINGS
            /\ emitted'[i].type = "terminated"
                 => emitted'[i].count = MAX_PROCTOR_WARNINGS]_vars

\* C2, witness: the third accepted violation has just emitted the termination.
C2_Witness ==
    /\ proctorWarnings = MAX_PROCTOR_WARNINGS
    /\ \E r \in Reasons :
         emitted = <<[type |-> "terminated", reason |-> r,
                      count |-> MAX_PROCTOR_WARNINGS]>>

\* C3: when the user dismisses the termination of a session, the interview
\* is marked completed on the server and the client leaves the session
\* screen: the step that ends dismissTerminatedModal leaves the interview
\* completed, never in_progress.
C3_TerminationCompletes ==
    [][(dismissPc = Tracked /\ dismissPc' = "none")
         => (srv' = "completed" /\ screen' # "session")]_vars

\* C17: every activation of proctoring from the inactive state leaves
\* proctoring active with warningCount 0 and the cooldown not engaged,
\* whatever the previous activation left behind.
C17_ActivationResets ==
    [][(~proctorActive /\ proctorActive')
         => (proctorWarnings' = 0 /\ ~proctorCooldown')]_vars

\* C17, witness: proctoring was activated again in a session that had been
\* terminated, while the cooldown timer of the last violation is pending.
C17_Witness ==
    /\ sessionTerminated
    /\ proctorActive
    /\ proctorWarnings = 0
    /\ ~proctorCooldown
    /\ cooldownTimers > 0

\* C18: stopProctoring changes nothing when proctoring is inactive, twice
\* in a row it leaves the state that once leaves, and that state is
\* inactive with the interval of the frame sampling cleared.
C18_StopIdempotent ==
    LET once == stopProctoring(Client)
    IN  /\ stopProctoring(once) = once
        /\ ~proctorActive => once = Client
        /\ ~once.proctorActive
        /\ ~once.faceDetectionInterval

\* C18, witness: the session was terminated (showInterviewTerminated
\* called stopProctoring) and then left (navigate called it again).
C18_Witness ==
    /\ sessionTerminated
    /\ screen = "dashboard"
    /\ ~proctorActive
    /\ ~faceDetectionInterval

\* the warning count, the cooldown, the timers and the modals of c are
\* those of the current state, and c shows nothing
SameProctoring(c) ==
    /\ c.proctorWarnings = proctorWarnings
    /\ c.proctorCooldown = proctorCooldown
    /\ c.cooldownTimers = cooldownTimers
    /\ c.dismissTimers = dismissTimers
    /\ c.warningModal = warningModal
    /\ c.terminatedModal = terminatedModal
    /\ c.emitted = <<>>

\* C19: while proctoring is not active or the cooldown is engaged, a
\* violation signal changes nothing: the warning count and the cooldown
\* stay, no timer is scheduled, no warning and no termination is shown.
C19_SignalIgnored ==
    [][(~proctorActive \/ proctorCooldown)
         => /\ \A r \in Reasons : handleProctorViolation(Client, r) = Client
            /\ \A hidden \in BOOLEAN :
                 /\ SameProctoring(handleVisibilityChange(Client, hidden))
                 /\ SameProctoring(blurTimeout(Client, hidden))
            /\ \A moved \in BOOLEAN : SameProctoring(faceDetectionTick(Client, moved))
            /\ proctorWarnings' <= proctorWarnings
            /\ emitted' = <<>>]_vars

\* C19, witness: the cooldown is engaged after a warning and the timeout of
\* a window blur is due.
C19_Witness ==
    /\ proctorActive
    /\ proctorCooldown
    /\ proctorWarnings = 1
    /\ blurTimers > 0

\* C20: after proctoring was deactivated and activated again, a cooldown
\* timer scheduled before the deactivation does not clear the cooldown of
\* the new activation when it fires, and an auto-dismiss timer scheduled
\* before the deactivation does not hide a warning of the new activation.
C20_StaleTimersInert ==
    [][/\ (proctorActive /\ staleCooldown > 0 /\ cooldownTimers' < cooldownTimers)
          => proctorCooldown' = proctorCooldown
       /\ (proctorActive /\ staleDismiss > 0 /\ dismissTimers' < dismissTimers)
          => warningModal' = warningModal]_vars

\* C21: within one activation, a violation is accepted only when the
\* cooldown timer of the violation accepted before it has expired: no
\* cooldown timer scheduled in this activation is pending.
C21_OneWindowPerViolation ==
    [][(proctorWarnings' = proctorWarnings + 1)
         => cooldownTimers = staleCooldown]_vars

\* C22: a warning that is shown is not hidden by the auto-dismiss timer of
\* a warning shown before it: when an auto-dismiss timer hides the
\* warning, it is the only one pending, the one of the warning shown.
C22_OwnTimerHides ==
    [][(warningModal /\ ~warningModal' /\ dismissTimers' < dismissTimers)
         => dismissTimers = 1]_vars

\* C23: while the current screen is not the session screen, proctoring is
\* not active (its listeners are removed) and the interval of the frame
\* sampling is cleared.
C23_ActiveOnlyInSession ==
    screen # "session" => (~proctorActive /\ ~faceDetectionInterval)

\* C23, witness: the session screen was left for the dashboard within the
\* cooldown of a violation, without a termination.
C23_Witness ==
    /\ screen = "dashboard"
    /\ ~sessionTerminated
    /\ cooldownTimers > 0
    /\ ~proctorActive

\* C29: while the current screen is not the session screen, there is no
\* camera stream.
C29_CameraOnlyInSession ==
    screen # "session" => ~cameraStream

-----------------------------------------------------------------------------
(***************************************************************************)
(* Properties of the backend (SpecApi).                                    *)
(***************************************************************************)

\* the step serves a request up to its response or its await (it does not
\* resume a suspended one)
Arrives == Len(inflight') >= Len(inflight)

\* the step changes no row, starts no Gemini call and resumes none
Untouched == db' = db /\ nextId' = nextId /\ inflight' = inflight

\* C4: no request of an AI-backed operation ends in a 500 because of what
\* Gemini answered: a 500 never reports an error raised by binding or
\* storing the parsed answer.
C4_NoServerErrorFromAI ==
    ~(lastRes.status = 500 /\ lastRes.error \in {"TypeError", "NOTNULL"})

\* C5: a successful GET /api/report/:interviewId of the interview whose
\* report was generated last returns the report object of that generation
\* response: the same fields with the same values.
C5_ReadEqualsGenerated ==
    (lastReq.op = "getReport" /\ lastRes.status = 200 /\ genResponse.id = lastReq.id)
      => /\ DOMAIN lastRes.report[1] = DOMAIN genResponse.report[1]
         /\ lastRes.report = genResponse.report

\* C6, as stated: no step updates or deletes a question, answer or report
\* row written before.
C6_AppendOnly ==
    [][/\ db.questions \subseteq db'.questions
       /\ db.answers \subseteq db'.answers
       /\ db.reports \subseteq db'.reports]_vars

\* the step deletes the interview with this id
Deleted(id) ==
    /\ \E i \in db.interviews : i.id = id
    /\ \A i \in db'.interviews : i.id # id

\* C6, amended: no question, answer or report row is ever updated in place;
\* a question or answer row is deleted only in the step that deletes its
\* interview; a report row is deleted only in that step or in the step
\* that resumes a POST /report/generate of its interview.
C6_FixedUntilDeleted ==
    [][/\ \A q \in db.questions :
            \/ q \in db'.questions
            \/ Deleted(q.interview_id) /\ \A x \in db'.questions : x.id # q.id
       /\ \A r \in db.answers :
            \/ r \in db'.answers
            \/ Deleted(r.interview_id) /\ \A x \in db'.answers : x.id # r.id
       /\ \A r \in db.reports :
            \/ r \in db'.reports
            \/ /\ \A x \in db'.reports : x.id # r.id
               /\ \/ Deleted(r.interview_id)
                  \/ /\ lastReq'.op = "generate" /\ lastReq'.id = r.interview_id
                     /\ ~Arrives]_vars

\* C6, witness: a regeneration has replaced a report, the first one is gone.
C6_Witness ==
    /\ lastReq.op = "generate" /\ lastRes.status = 200
    /\ \E r \in db.reports : r.id > 1
    /\ \A r \in db.reports : r.id # 1

\* the request names an interview that does not exist or is another user's
Foreign(req) ==
    /\ req.op \in {"answer", "complete", "getInterview", "delete", "generate",
                   "getReport"}
    /\ \A i \in db.interviews : i.id = req.id => i.user_id # req.auth.user

\* the answer request names a question that is not one of its interview
ForeignQuestion(req) ==
    /\ req.op = "answer"
    /\ \A q \in db.questions : q.id = req.questionId => q.interview_id # req.id

ValidBearer(h) == h.scheme = "Bearer" /\ h.token = "valid"

\* C8: a request without a valid Bearer token is answered 401 and no
\* handler runs for it: no table is read or written, no Gemini call and no
\* local heuristic is made.
C8_Unauthorized ==
    [][(~ValidBearer(lastReq'.auth) /\ lastReq'.op # "none")
         => (lastRes'.status = 401 /\ lastRes'.data = {} /\ work' = {}
             /\ Untouched)]_vars

\* C8, witness: a request with an expired token was refused while the
\* tables hold an interview.
C8_Witness ==
    /\ lastRes.status = 401
    /\ lastReq.auth.token = "expired"
    /\ db.interviews # {}

\* the body of a start or answer request fails the validation
MissingField(req) ==
    \/ /\ req.op = "start"
       /\ \/ req.start.jobRole = "" \/ req.start.interviewType = ""
          \/ req.start.difficulty = "" \/ req.start.numQuestions = 0
    \/ /\ req.op = "answer"
       /\ \/ req.questionId = 0 \/ ~req.answerText.present
          \/ req.answerText.trimmed < 5

\* C9: a start or answer request whose body fails the validation is
\* answered 400 before anything else is done: no table is read or written,
\* no Gemini call and no local heuristic is made.
C9_ValidationFirst ==
    [][(ValidBearer(lastReq'.auth) /\ MissingField(lastReq'))
         => (lastRes'.status = 400 /\ work' = {} /\ Untouched)]_vars

\* C9, witness: an answer of four characters for an existing question of
\* the caller's interview was refused.
C9_Witness ==
    /\ lastRes.status = 400
    /\ lastReq.op = "answer"
    /\ lastReq.answerText.present /\ lastReq.answerText.trimmed < 5
    /\ \E i \in db.interviews :
         /\ i.id = lastReq.id /\ i.user_id = lastReq.auth.user
         /\ \E q \in db.questions : q.id = lastReq.questionId /\ q.interview_id = i.id

\* a report is asked for an interview of the caller that has no answered
\* question
ZeroAnswers(req) ==
    /\ req.op = "generate" /\ ValidBearer(req.auth)
    /\ ownInterview(db, req.id, req.auth.user) # {}
    /\ answeredQAs(db, req.id) = {}

\* C24, as stated: POST /api/report/generate for an interview of the caller
\* without any answered question is not rejected: it goes on to produce a
\* report.
C24_ZeroAnswersScored ==
    [][(Arrives /\ ZeroAnswers(lastReq')) => lastRes'.status # 400]_vars

\* C24, amended: POST /api/report/generate for an interview of the caller
\* without any answered question is answered 400; nothing is stored, and
\* neither Gemini nor the local report generator is called.
C24_ZeroAnswersRejected ==
    [][(Arrives /\ ZeroAnswers(lastReq'))
         => (lastRes'.status = 400 /\ lastRes'.report = NULL
             /\ work' = {"read"} /\ Untouched)]_vars

\* C24, witness: a report was asked for the caller's interview, which has
\* its questions and no answer, and the request was refused.
C24_Witness ==
    /\ lastReq.op = "generate" /\ lastRes.status = 400
    /\ ownInterview(db, lastReq.id, lastReq.auth.user) # {}
    /\ \E q \in db.questions : q.interview_id = lastReq.id
    /\ answeredQAs(db, lastReq.id) = {}
    /\ db.reports = {}

\* a suspended report generation writes its report
Writes ==
    /\ Len(inflight') < Len(inflight)
    /\ lastReq'.op = "generate" /\ lastRes'.status = 200

\* C25: the reports table never holds two rows of one interview, also
\* with several generations of one interview in flight; no generation fails
\* on the UNIQUE constraint; and after a generation has written, the one
\* report of its interview is the row it inserted, with the values of its
\* response.
C25_OneReportLastWriter ==
    [][/\ \A r1, r2 \in db'.reports : r1.interview_id = r2.interview_id => r1 = r2
       /\ lastRes'.error # "UNIQUE"
       /\ Writes =>
            \A r \in db'.reports :
               r.interview_id = lastReq'.id
                 => /\ r.id = nextId.reports
                    /\ r.overall_score = lastRes'.report[1].overallScore
                    /\ r.grade = lastRes'.report[1].grade
                    /\ parse(r.strengths) = lastRes'.report[1].strengths]_vars

\* C25, witness: a report of an interview is stored while a generation for
\* the same interview, which arrived before that report was written, is
\* still waiting for Gemini.
C25_Witness ==
    \E k \in DOMAIN inflight :
      /\ inflight[k].req.op = "generate"
      /\ \A i \in inflight[k].interview : i.overall_score = NULL
      /\ \E r \in db.reports : r.interview_id = inflight[k].req.id

\* C26: whenever an interview has a report row, the overall_score and the
\* grade of the interview row are those of the report.
C26_InterviewMatchesReport ==
    \A r \in db.reports : \A i \in db.interviews :
      i.id = r.interview_id
        => (i.overall_score = <<r.overall_score>> /\ i.grade = <<r.grade>>)

\* C27: no question has two answer rows.
C27_OneAnswerPerQuestion ==
    \A r1, r2 \in db.answers : r1.question_id = r2.question_id => r1 = r2

\* C28: every interview row has exactly num_questions question rows, with
\* the indexes 0 .. num_questions - 1.
C28_QuestionsComplete ==
    \A i \in db.interviews :
      LET qs == {q \in db.questions : q.interview_id = i.id}
      IN  /\ Cardinality(qs) = i.num_questions
          /\ {q.question_index : q \in qs} = 0..(i.num_questions - 1)

-----------------------------------------------------------------------------
(***************************************************************************)
(* Properties of the question selector (SpecQuestions).                    *)
(***************************************************************************)

\* C10: for a recognized interviewType and a positive numQuestions, the
\* result of generateLocalQuestions has exactly min(numQuestions, pool
\* size) questions, each is a question of that category's pool (the first
\* one possibly with the job role written into it), and no two of them are
\* the same, whatever order the shuffle produced.
C10_Selection ==
    (selection # <<>> /\ request.interviewType \in InterviewTypes)
      => LET pool == QUESTIONS(request.interviewType)
         IN  /\ Len(selection) = Min(request.numQuestions, Len(pool))
             /\ \A i \in DOMAIN selection :
                  \E j \in DOMAIN pool :
                    /\ selection[i].type = pool[j].type
                    /\ selection[i].idx = pool[j].idx
                    /\ \/ selection[i] = pool[j]
                       \/ i = 1 /\ pool[j].marker
                            /\ selection[i].role = request.jobRole
             /\ \A i, j \in DOMAIN selection :
                  i # j => selection[i] # selection[j]

\* C10, witness: more questions were asked for than the pool holds, and the
\* first question selected was personalised.
C10_Witness ==
    /\ request.numQuestions > PoolSize
    /\ request.interviewType = "mixed"
    /\ Len(selection) = PoolSize
    /\ selection[1].role = request.jobRole

\* C11: for an interviewType that is none of behavioral, technical,
\* situational and mixed, generateLocalQuestions does not throw and
\* selects questions of the mixed pool.
C11_UnrecognizedIsMixed ==
    ((selection # <<>> \/ thrown) /\ request.interviewType \notin InterviewTypes)
      => /\ ~thrown
         /\ \A i \in DOMAIN selection : selection[i].type = "mixed"

-----------------------------------------------------------------------------
(***************************************************************************)
(* Properties of the scoring functions (SpecFunctions).                    *)
(***************************************************************************)

\* the ceiling the specification gives for a difficulty
StatedCap(difficulty) ==
    CASE difficulty = "Easy" -> 95
      [] difficulty = "Medium" -> 90
      [] difficulty = "Hard" -> 85
      [] difficulty = "Expert" -> 80
      [] OTHER -> 90

\* C12: for every non-empty answer and every difficulty, the score of
\* evaluateAnswerLocally is an integer from 30 to the ceiling of the
\* difficulty: 95 for Easy, 90 for Medium, 85 for Hard, 80 for Expert and
\* 90 for any other value.
C12_ScoreWithinCap ==
    call.fn = "evaluate"
      => /\ result.score # NaN
         /\ 30 <= result.score
         /\ result.score <= StatedCap(call.difficulty)

\* the sum 50 + W + S + K of the specification for an answer text
StatedSum(text) ==
    50 + (IF text.words >= 20 THEN 5 ELSE 0) + (IF text.words >= 50 THEN 10 ELSE 0)
       + (IF text.words >= 100 THEN 5 ELSE 0) + (IF text.words >= 150 THEN 5 ELSE 0)
       + (IF text.sentences >= 2 THEN 5 ELSE 0) + (IF text.sentences >= 4 THEN 5 ELSE 0)
       + (IF text.hasNumbers THEN 5 ELSE 0) + (IF text.hasSpecifics THEN 5 ELSE 0)
       + (IF text.hasStructure THEN 5 ELSE 0)

\* C13: the score of evaluateAnswerLocally is max(30, min(cap(difficulty),
\* 50 + W + S + K)), and it is the same for every draw of the three
\* phrases.
C13_ScoreFormula ==
    call.fn = "evaluate"
      => /\ result.score = Max(30, Min(StatedCap(call.difficulty), StatedSum(call.text)))
         /\ \A phrases \in PhraseDraws :
              evaluateAnswerLocally(call.text, call.difficulty, phrases).score
                = result.score

RECURSIVE SumSeq(_)
SumSeq(scores) ==
    IF scores = <<>> THEN 0 ELSE Head(scores) + SumSeq(Tail(scores))

\* C14: overallScore of generateReportLocally is the rounded mean of all
\* the scores of the answered questions, scores of 0 included, and 60
\* when there is none.
C14_OverallIsMean ==
    call.fn = "report"
      => result.overallScore =
           IF call.scores = <<>> THEN 60
           ELSE RoundDiv(SumSeq(call.scores), Len(call.scores))

\* the grade the specification gives for a score
StatedGrade(score) ==
    CASE score >= 85 -> "Excellent"
      [] score >= 70 /\ score <= 84 -> "Good"
      [] score >= 55 /\ score <= 69 -> "Average"
      [] score >= 40 /\ score <= 54 -> "Needs Improvement"
      [] OTHER -> "Poor"

\* C15: for every score from 0 to 100, scoreToGrade of routes/interview.js,
\* scoreToGrade of routes/report.js and the grade of generateReportLocally
\* are the same grade: Excellent from 85, Good from 70, Average from 55,
\* Needs Improvement from 40, Poor below.
C15_SameGrade ==
    call.fn = "grade"
      => /\ result.interview = StatedGrade(call.score)
         /\ result.report = StatedGrade(call.score)
         /\ result.local = StatedGrade(call.score)

\* C15, witness: the score 85 was converted to Excellent by routes/report.js.
C15_Witness ==
    /\ call.fn = "grade"
    /\ call.score = 85
    /\ result.report = "Excellent"

\* C16: each of the five sub-skill scores of generateReportLocally is
\* clamp(overallScore + d, 0, 100) for an offset d from -range to +range
\* (10, 8 for confidence, 12 for depth), and Math.random() can produce
\* every offset of that interval.
C16_SubSkillOffsets ==
    call.fn = "report"
      => \A s \in Skills :
           /\ result[s] \in 0..100
           /\ \E d \in (0 - rangeOf(s))..rangeOf(s) :
                result[s] = Min(100, Max(0, result.overallScore + d))
           /\ \A d \in (0 - rangeOf(s))..rangeOf(s) :
                \E n \in Draws : drawn(n, rangeOf(s)) = d


-----------------------------------------------------------------------------
(***************************************************************************)
(* Properties of callGemini (SpecGemini).                                  *)
(***************************************************************************)

\* C30: a call of callGemini makes at most 3 HTTP attempts; an attempt is
\* followed by another one only when it was attempt 1 or 2 and its response
\* was a 429; the call ends returning a non-empty text or throwing; and
\* when the response of the third attempt is a 429 too, what it throws is
\* the error 'rate limit exceeded after retries'.
C30_BoundedRetries ==
    /\ gemini.attempts <= MAX_RETRIES
    /\ \A i \in 1..(gemini.attempts - 1) : i <= 2 /\ gemini.log[i] = 429
    /\ gemini.pc = "returned" => gemini.text \notin {"none", ""}
    /\ (/\ gemini.pc = "threw"
        /\ Len(gemini.log) = MAX_RETRIES
        /\ gemini.log[MAX_RETRIES] = 429) => gemini.error = RateLimitExceeded

=============================================================================
